---- MODULE Spec2Model ----
(***************************************************************************)
(* Model of the Conventional Commits parser of go-conventionalcommits      *)
(* (parser/machine.go, generated by Ragel from parser/machine.go.rl).      *)
(*                                                                         *)
(* The machine is a goto-driven DFA.  One step of the model is one         *)
(* transition of the DFA: the from-state action of the current state, the  *)
(* transition's actions, the to-state action of the target and the cursor  *)
(* increment with its end-of-input test.  Bytes are numbers, strings are   *)
(* tuples of bytes, p and pb are the zero-based Go indexes.                *)
(***************************************************************************)
EXTENDS Integers, Sequences, FiniteSets, TLC

VARIABLES
    typeConfig,       \* machine.typeConfig
    bestEffort,       \* machine.bestEffort
    data,             \* machine.data
    cs,               \* machine.cs: the state control is at
    p, pe, eof,       \* machine.p, machine.pe, machine.eof
    pb,               \* machine.pb
    err,              \* machine.err
    currentFooterKey, \* machine.currentFooterKey
    countNewlines,    \* machine.countNewlines
    lastNewline,      \* machine.lastNewline
    output,           \* the local *conventionalCommit of Parse
    pc,               \* where the call is: idle, run, eof, out, panic, done
    result,           \* what Parse returned
    token,            \* history: the input slice currentFooterKey was made from
    emitted,          \* history: the trailers set_footer stored, in order
    rewinds,          \* history: the offsets the body machine resumed at, in order
    calls,            \* history: the Parse calls begun on this machine
    sent              \* history: the record whose serialization is the input

vars == <<typeConfig, bestEffort, data, cs, p, pe, eof, pb, err,
          currentFooterKey, countNewlines, lastNewline, output, pc, result,
          token, emitted, rewinds, calls, sent>>

----------------------------------------------------------------------------
(* Bytes *)

NL == 10
SP == 32
EXCL == 33
HASH == 35
LPAR == 40
RPAR == 41
DASH == 45
COLON == 58
PrintLo == 32
PrintHi == 126

IsPrint(c) == PrintLo <= c /\ c <= PrintHi

\* print minus '(' and ')', as the two range tests of st10/st11 spell it
IsScopeByte(c) == (c > 39 /\ 42 <= c /\ c <= PrintHi) \/ (c <= 39 /\ c >= PrintLo)

IsAlnum(c) == (48 <= c /\ c <= 57) \/ (65 <= c /\ c <= 90) \/ (97 <= c /\ c <= 122)

\* bytes.ToLower on one ASCII byte
ToLowerByte(c) == IF 65 <= c /\ c <= 90 THEN c + 32 ELSE c

ToLower(s) == [i \in 1..Len(s) |-> ToLowerByte(s[i])]

----------------------------------------------------------------------------
(* States *)

start == 1
firstFinal == 85
enTrailerBeg == 87
enTrailerEnd == 33
enBody == 34
enMain == 1
enConventionalTypesMain == 35
enFreeFormTypesMain == 76

\* The three copies of the header sub-machine, one per dialect.
HeaderStates ==
    [minimal |->
        [entry |-> 1, typ |-> 5, excl |-> 6, colon |-> 7, ws |-> 8, descr |-> 85,
         nl |-> 9, blank |-> 86, sopen |-> 10, scope |-> 11, sclose |-> 12],
     conventional |->
        [entry |-> 35, typ |-> 40, excl |-> 41, colon |-> 42, ws |-> 43, descr |-> 93,
         nl |-> 44, blank |-> 94, sopen |-> 45, scope |-> 46, sclose |-> 47],
     freeform |->
        [entry |-> 76, typ |-> 77, excl |-> 78, colon |-> 79, ws |-> 80, descr |-> 95,
         nl |-> 81, blank |-> 96, sopen |-> 82, scope |-> 83, sclose |-> 84]]

Dialects == {"minimal", "conventional", "freeform"}

HeaderRoles == {"entry", "typ", "excl", "colon", "ws", "descr", "nl", "blank",
                "sopen", "scope", "sclose"}

\* <<from, upper-case byte, to>>: in state from, the byte or its lower-case
\* form leads to state to; every other byte is an err_type (tr0).
KeywordEdges ==
    { <<1, 70, 2>>, <<2, 69, 3>>, <<2, 73, 13>>, <<3, 65, 4>>, <<4, 84, 5>>,
      <<13, 88, 5>>,
      <<35, 66, 36>>, <<35, 67, 48>>, <<35, 68, 52>>, <<35, 70, 55>>,
      <<35, 80, 59>>, <<35, 82, 62>>, <<35, 83, 71>>, <<35, 84, 74>>,
      <<36, 85, 37>>, <<37, 73, 38>>, <<38, 76, 39>>, <<39, 68, 40>>,
      <<48, 72, 49>>, <<48, 73, 40>>, <<49, 79, 50>>, <<50, 82, 51>>,
      <<51, 69, 40>>,
      <<52, 79, 53>>, <<53, 67, 54>>, <<54, 83, 40>>,
      <<55, 69, 56>>, <<55, 73, 58>>, <<56, 65, 57>>, <<57, 84, 40>>,
      <<58, 88, 40>>,
      <<59, 69, 60>>, <<60, 82, 61>>, <<61, 70, 40>>,
      <<62, 69, 63>>, <<63, 70, 64>>, <<63, 86, 69>>, <<64, 65, 65>>,
      <<65, 67, 66>>, <<66, 84, 67>>, <<67, 79, 68>>, <<68, 82, 40>>,
      <<69, 69, 70>>, <<70, 82, 57>>,
      <<71, 84, 72>>, <<72, 89, 73>>, <<73, 76, 51>>,
      <<74, 69, 75>>, <<75, 83, 57>> }

KeywordStates == {e[1] : e \in KeywordEdges}

\* <<from, byte, to>>: the states that spell BREAKING (18..25) and CHANGE (27..32)
BreakingEdges ==
    { <<18, 82, 19>>, <<19, 69, 20>>, <<20, 65, 21>>, <<21, 75, 22>>,
      <<22, 73, 23>>, <<23, 78, 24>>, <<24, 71, 25>> }

ChangeEdges ==
    { <<27, 72, 28>>, <<28, 65, 29>>, <<29, 78, 30>>, <<30, 71, 31>>,
      <<31, 69, 32>> }

----------------------------------------------------------------------------
(* Values *)

NoErr == [kind |-> "nil", ch |-> -1, col |-> -1]

EmptyCommit ==
    [type |-> <<>>, scope |-> <<>>, exclamation |-> FALSE, descr |-> <<>>,
     body |-> <<>>, footers |-> <<>>]

NoResult == [returned |-> FALSE, msgNil |-> TRUE, msg |-> EmptyCommit, err |-> NoErr]

\* The input of the call was not made from a record.
NotSent == [given |-> FALSE, msg |-> EmptyCommit]

\* The machine and the local output as one record, so that the actions of the
\* grammar compose as the generated code composes them.
Cur ==
    [cs |-> cs, p |-> p, pe |-> pe, eof |-> eof, pb |-> pb, err |-> err,
     currentFooterKey |-> currentFooterKey, countNewlines |-> countNewlines,
     lastNewline |-> lastNewline, output |-> output, pc |-> pc,
     token |-> token, emitted |-> emitted, rewinds |-> rewinds]

Install(s) ==
    /\ cs' = s.cs
    /\ p' = s.p
    /\ pe' = s.pe
    /\ eof' = s.eof
    /\ pb' = s.pb
    /\ err' = s.err
    /\ currentFooterKey' = s.currentFooterKey
    /\ countNewlines' = s.countNewlines
    /\ lastNewline' = s.lastNewline
    /\ output' = s.output
    /\ pc' = s.pc
    /\ token' = s.token
    /\ emitted' = s.emitted
    /\ rewinds' = s.rewinds

\* An index or a slice out of range: the Go runtime panics, Parse never returns.
Panic(s) == [s EXCEPT !.pc = "panic"]

----------------------------------------------------------------------------
(* The machine's helpers *)

\* m.data[m.pb:m.p]
text(s) == SubSeq(data, s.pb + 1, s.p)

\* the slice expression data[pb:p] is in range
textInRange(s) == 0 <= s.pb /\ s.pb <= s.p /\ s.p <= Len(data)

emitError(s, kind, c, col) == [s EXCEPT !.err = [kind |-> kind, ch |-> c, col |-> col]]

\* emitErrorWithoutCharacter, reporting the position after the cursor
emitErrorWithoutCharacter_next(s, kind) == emitError(s, kind, -1, s.p + 1)

emitErrorWithoutCharacter(s, kind) == emitError(s, kind, -1, s.p)

\* emitErrorOnCurrentCharacter, counting the column from one
emitErrorOnCurrentCharacter_onebased(s, kind) ==
    IF 0 <= s.p /\ s.p < Len(data)
    THEN emitError(s, kind, data[s.p + 1], s.p + 1)
    ELSE Panic(s)

emitErrorOnCurrentCharacter(s, kind) ==
    IF 0 <= s.p /\ s.p < Len(data)
    THEN emitError(s, kind, data[s.p + 1], s.p)
    ELSE Panic(s)

emitErrorOnPreviousCharacter(s, kind) ==
    IF 1 <= s.p /\ s.p <= Len(data)
    THEN emitError(s, kind, data[s.p], s.p)
    ELSE Panic(s)

\* conventionalCommit.minimal()
minimal(o) == o.type # <<>> /\ o.descr # <<>>

\* conventionalCommit.export()
export(o) == o

----------------------------------------------------------------------------
(* The actions of the grammar *)

mark(s) == [s EXCEPT !.pb = s.p]

\* err_empty, setting no error
err_empty_skip(s) == s

err_empty(s) == emitErrorWithoutCharacter(s, "ErrEmpty")

err_type(s) ==
    IF s.pe > 0
    THEN IF s.p # s.pe
         THEN emitErrorOnCurrentCharacter(s, "ErrType")
         ELSE emitErrorOnPreviousCharacter(s, "ErrTypeIncomplete")
    ELSE s

err_malformed_scope(s) ==
    IF s.p < s.pe THEN emitErrorOnCurrentCharacter(s, "ErrScope") ELSE s

\* err_malformed_scope_closing, reporting the open scope as an illegal byte
err_malformed_scope_closing_as_scope(s) == emitErrorOnPreviousCharacter(s, "ErrScope")

err_malformed_scope_closing(s) == emitErrorOnPreviousCharacter(s, "ErrScopeIncomplete")

\* err_colon, replacing an error already set
err_colon_late(s) ==
    IF s.p < s.pe
    THEN emitErrorOnCurrentCharacter(s, "ErrColon")
    ELSE emitErrorOnPreviousCharacter(s, "ErrColon")

\* err_colon, raised whether or not an error is already set
err_colon_unguarded(s) == emitErrorOnCurrentCharacter(s, "ErrColon")

err_colon(s) ==
    IF s.err = NoErr THEN emitErrorOnCurrentCharacter(s, "ErrColon") ELSE s

\* err_description_init, naming the byte before the current one
err_description_init_previous(s) ==
    IF s.err = NoErr THEN emitErrorOnPreviousCharacter(s, "ErrDescriptionInit") ELSE s

err_description_init(s) ==
    IF s.err = NoErr THEN emitErrorOnCurrentCharacter(s, "ErrDescriptionInit") ELSE s

\* err_description, reporting the position of the newline itself
err_description_at_newline(s) ==
    IF s.p < s.pe /\ data[s.p + 1] = NL
    THEN emitError(s, "ErrNewline", -1, s.p)
    ELSE emitErrorOnPreviousCharacter(s, "ErrDescription")

err_description(s) ==
    IF s.p < s.pe /\ data[s.p + 1] = NL
    THEN emitError(s, "ErrNewline", -1, s.p + 1)
    ELSE emitErrorOnPreviousCharacter(s, "ErrDescription")

\* check_early_exit, naming the byte before the last
check_early_exit_previous(s) ==
    IF s.p + 1 = s.pe THEN emitErrorOnPreviousCharacter(s, "ErrEarly") ELSE s

check_early_exit(s) ==
    IF s.p + 1 = s.pe THEN emitErrorOnCurrentCharacter(s, "ErrEarly") ELSE s

\* err_begin_blank_line, setting no error
err_begin_blank_line_skip(s) == s

err_begin_blank_line(s) == emitErrorWithoutCharacter(s, "ErrMissingBlankLineAtBeginning")

\* set_type, storing the empty slice data[pb:pb]
set_type_empty(s) ==
    IF textInRange(s) THEN [s EXCEPT !.output.type = SubSeq(data, s.pb + 1, s.pb)] ELSE Panic(s)

\* set_type, storing the type in lower case
set_type_lower(s) ==
    IF textInRange(s) THEN [s EXCEPT !.output.type = ToLower(text(s))] ELSE Panic(s)

set_type(s) ==
    IF textInRange(s) THEN [s EXCEPT !.output.type = text(s)] ELSE Panic(s)

set_scope(s) ==
    IF textInRange(s) THEN [s EXCEPT !.output.scope = text(s)] ELSE Panic(s)

\* set_description, the slice starting one byte before the mark
set_description_early(s) ==
    IF textInRange(s) /\ s.pb >= 1
    THEN [s EXCEPT !.output.descr = SubSeq(data, s.pb, s.p)]
    ELSE Panic(s)

set_description(s) ==
    IF textInRange(s) THEN [s EXCEPT !.output.descr = text(s)] ELSE Panic(s)

\* set_exclamation, leaving the flag as it is
set_exclamation_skip(s) == s

set_exclamation(s) == [s EXCEPT !.output.exclamation = TRUE]

BreakingChangeToken == <<98, 114, 101, 97, 107, 105, 110, 103, 32, 99, 104, 97, 110, 103, 101>>

BreakingChangeKey == <<98, 114, 101, 97, 107, 105, 110, 103, 45, 99, 104, 97, 110, 103, 101>>

\* set_current_footer_key without the canonical form of BREAKING CHANGE
set_current_footer_key_raw(s) ==
    IF textInRange(s)
    THEN [s EXCEPT !.currentFooterKey = ToLower(text(s)), !.token = text(s)]
    ELSE Panic(s)

set_current_footer_key(s) ==
    IF textInRange(s)
    THEN LET k == ToLower(text(s))
         IN  [s EXCEPT !.currentFooterKey =
                           IF k = BreakingChangeToken THEN BreakingChangeKey ELSE k,
                       !.token = text(s)]
    ELSE Panic(s)

\* appendFooter, putting the new value first
appendFooter_prepend(f, k, v) ==
    [x \in (DOMAIN f) \cup {k} |->
        IF x = k
        THEN (IF k \in DOMAIN f THEN <<v>> \o f[k] ELSE <<v>>)
        ELSE f[x]]

\* output.footers[key] = append(output.footers[key], value)
appendFooter(f, k, v) ==
    [x \in (DOMAIN f) \cup {k} |->
        IF x = k
        THEN (IF k \in DOMAIN f THEN Append(f[k], v) ELSE <<v>>)
        ELSE f[x]]

set_footer(s) ==
    IF textInRange(s)
    THEN [s EXCEPT !.output.footers = appendFooter(@, s.currentFooterKey, text(s)),
                   !.emitted = Append(@, [token |-> s.token, value |-> text(s)])]
    ELSE Panic(s)

count_nl(s) == [s EXCEPT !.countNewlines = @ + 1, !.lastNewline = s.p]

Newlines(n) == [i \in 1..n |-> NL]

\* append_body, leaving the newline count as it is
append_body_keep(s) ==
    IF textInRange(s)
    THEN [s EXCEPT !.output.body =
                       @ \o (IF s.countNewlines > 0 THEN Newlines(s.countNewlines) ELSE <<>>)
                         \o text(s)]
    ELSE Panic(s)

append_body(s) ==
    IF textInRange(s)
    THEN [s EXCEPT !.output.body =
                       @ \o (IF s.countNewlines > 0 THEN Newlines(s.countNewlines) ELSE <<>>)
                         \o text(s),
                   !.countNewlines = IF @ > 0 THEN 0 ELSE @]
    ELSE Panic(s)

append_body_before_blank_line(s) ==
    LET t == [s EXCEPT !.pb = @ + 1, !.p = @ + 1]
    IN  IF textInRange(t)
        THEN [t EXCEPT !.output.body = @ \o text(t), !.p = @ - 1]
        ELSE Panic(t)

\* blank_line_ahead looking at one newline only
blank_line_ahead_single(s) ==
    /\ s.p + 2 < s.pe
    /\ data[s.p + 2] = NL

blank_line_ahead(s) ==
    /\ s.p + 2 < s.pe
    /\ data[s.p + 2] = NL
    /\ data[s.p + 3] = NL

----------------------------------------------------------------------------
(* Control *)

\* States entered through check_early_exit (the %to action of type, scope,
\* breaking marker and colon).
EarlyExitStates == {5, 6, 7, 12, 40, 41, 42, 47, 77, 78, 79, 84}

\* Label st<n>: the to-state action, then the cursor moves on; at the end of
\* the input control goes to _testEof with m.cs = n, else to stCase<n>.
Enter(s, n) ==
    IF s.pc = "panic" THEN s
    ELSE LET t == IF n \in EarlyExitStates THEN check_early_exit(s) ELSE s
         IN  IF t.pc = "panic" THEN t
             ELSE [t EXCEPT !.cs = n, !.p = @ + 1,
                            !.pc = IF t.p + 1 = t.pe THEN "eof" ELSE "run"]

\* Label st0: the error state; control leaves the machine.
St0(s) == IF s.pc = "panic" THEN s ELSE [s EXCEPT !.cs = 0, !.pc = "out"]

\* action rewind, pb left where the last mark put it
rewind_body_stale(s) == [s EXCEPT !.p = s.pb - 1, !.rewinds = Append(@, s.pb)]

\* action rewind (tr21, and the end-of-input action of the token states)
rewind_body(s) ==
    LET t == IF s.countNewlines > 0 THEN [s EXCEPT !.pb = s.lastNewline + 1] ELSE s
    IN  [t EXCEPT !.p = t.pb - 1, !.rewinds = Append(@, t.pb)]

rewind_error(s) ==
    IF s.p # s.pe
    THEN emitErrorOnCurrentCharacter(s, "ErrTrailer")
    ELSE emitErrorOnPreviousCharacter(s, "ErrTrailerIncomplete")

\* tr21, rewinding into the body whether or not a footer was stored
tr21_always(s) == Enter(rewind_body(s), enBody)

tr21(s) ==
    IF DOMAIN s.output.footers = {}
    THEN Enter(rewind_body(s), enBody)
    ELSE St0(rewind_error(s))

tr0(s) == St0(err_type(s))
tr6(s) == St0(err_colon(s))
tr10(s) == St0(err_description_init(s))
tr13(s) == St0(err_description(s))
tr14(s) == St0(err_begin_blank_line(s))
tr16(s) == St0(err_malformed_scope(s))

\* The header state of dialect row d and role r.
H(d, r) == HeaderStates[d][r]

\* The dialect and the role of each header state.
HeaderIndex ==
    [n \in {H(d, r) : d \in Dialects, r \in HeaderRoles} |->
        CHOOSE dr \in Dialects \X HeaderRoles : H(dr[1], dr[2]) = n]

RowOf(n) == HeaderIndex[n][1]

RoleOf(n) == HeaderIndex[n][2]

AllHeaderStates == KeywordStates \cup DOMAIN HeaderIndex

IsHeaderState(n) == n \in AllHeaderStates

\* The edges that leave each keyword state.
KeywordNext == [n \in KeywordStates |-> {e \in KeywordEdges : e[1] = n}]

\* stCase of the keyword states 1..4, 13, 35..39, 48..75
KeywordCase(s, c) ==
    LET hits == {e \in KeywordNext[s.cs] : c = e[2] \/ c = e[2] + 32}
    IN  IF hits = {} THEN tr0(s)
        ELSE LET e == CHOOSE e \in hits : TRUE
             IN  Enter(IF s.cs \in {enMain, enConventionalTypesMain} THEN mark(s) ELSE s,
                       e[3])

\* stCase of the header states after the type keyword, and of the free-form type
HeaderCase(s, c) ==
    LET d == RowOf(s.cs)
        r == RoleOf(s.cs)
    IN  CASE r = "entry" ->  \* stCase76
                 IF IsPrint(c) THEN Enter(mark(s), H(d, "typ")) ELSE tr0(s)
          [] r = "typ" ->    \* stCase5, stCase40, stCase77
                 LET t == set_type(s)
                 IN  IF c = EXCL THEN Enter(set_exclamation(t), H(d, "excl"))
                     ELSE IF c = LPAR THEN Enter(t, H(d, "sopen"))
                     ELSE IF c = COLON THEN Enter(t, H(d, "colon"))
                     ELSE IF d = "freeform" /\ IsPrint(c) THEN Enter(t, H(d, "typ"))
                     ELSE tr6(t)
          [] r = "excl" ->   \* stCase6, stCase41, stCase78
                 IF c = COLON THEN Enter(s, H(d, "colon")) ELSE tr6(s)
          [] r = "colon" ->  \* stCase7, stCase42, stCase79
                 IF c = SP THEN Enter(s, H(d, "ws")) ELSE tr10(s)
          [] r = "ws" ->     \* stCase8, stCase43, stCase80
                 IF c = NL THEN tr13(s)
                 ELSE IF c = SP THEN Enter(s, H(d, "ws"))
                 ELSE Enter(mark(s), H(d, "descr"))
          [] r = "descr" ->  \* stCase85, stCase93, stCase95
                 IF c = NL THEN Enter(set_description(s), H(d, "nl"))
                 ELSE Enter(s, H(d, "descr"))
          [] r = "nl" ->     \* stCase9, stCase44, stCase81
                 IF c = NL THEN Enter(s, enTrailerBeg) ELSE tr14(s)
          [] r = "blank" ->  \* stCase86, stCase94, stCase96
                 St0(s)
          [] r = "sopen" ->  \* stCase10, stCase45, stCase82
                 IF c = RPAR THEN Enter(set_scope(mark(s)), H(d, "sclose"))
                 ELSE IF IsScopeByte(c) THEN Enter(mark(s), H(d, "scope"))
                 ELSE tr16(s)
          [] r = "scope" ->  \* stCase11, stCase46, stCase83
                 IF c = RPAR THEN Enter(set_scope(s), H(d, "sclose"))
                 ELSE IF IsScopeByte(c) THEN Enter(s, H(d, "scope"))
                 ELSE tr16(s)
          [] r = "sclose" -> \* stCase12, stCase47, stCase84
                 IF c = EXCL THEN Enter(set_exclamation(s), H(d, "excl"))
                 ELSE IF c = COLON THEN Enter(s, H(d, "colon"))
                 ELSE tr6(s)

----------------------------------------------------------------------------
(* Trailers and body *)

\* st14 with a hash taken as a separator of its own
TokenCase_hash(s, c) ==
    IF c = SP THEN Enter(set_current_footer_key(s), 15)
    ELSE IF c = DASH THEN Enter(s, 16)
    ELSE IF c = COLON THEN Enter(set_current_footer_key(s), 17)
    ELSE IF c = HASH THEN Enter(set_current_footer_key(s), enTrailerEnd)
    ELSE IF IsAlnum(c) THEN Enter(s, 14)
    ELSE tr21(s)

\* What st14 does with a byte, shared by the states that spell BREAKING.
TokenCase(s, c) ==
    IF c = SP THEN Enter(set_current_footer_key(s), 15)       \* tr22
    ELSE IF c = DASH THEN Enter(s, 16)
    ELSE IF c = COLON THEN Enter(set_current_footer_key(s), 17) \* tr25
    ELSE IF IsAlnum(c) THEN Enter(s, 14)
    ELSE tr21(s)

\* stCase87, stCase14..stCase32: trailer_beg
TrailerBegCase(s, c) ==
    CASE s.cs = 87 ->
             IF c = NL THEN Enter(count_nl(s), 87)            \* tr103
             ELSE IF c = 66 THEN Enter(mark(s), 18)           \* tr105
             ELSE IF IsAlnum(c) THEN Enter(mark(s), 14)       \* tr104
             ELSE tr21(s)
      [] s.cs = 14 -> TokenCase(s, c)
      [] s.cs = 15 -> IF c = HASH THEN Enter(s, enTrailerEnd) ELSE tr21(s)  \* tr26
      [] s.cs = 16 -> IF IsAlnum(c) THEN Enter(s, 14) ELSE tr21(s)
      [] s.cs = 17 -> IF c = SP THEN Enter(s, enTrailerEnd) ELSE tr21(s)    \* tr27
      [] s.cs \in 18..24 ->
             LET e == CHOOSE e \in BreakingEdges : e[1] = s.cs
             IN  IF c \in {SP, DASH, COLON} THEN TokenCase(s, c)
                 ELSE IF c = e[2] THEN Enter(s, e[3])
                 ELSE TokenCase(s, c)
      [] s.cs = 25 ->
             IF c = SP THEN Enter(set_current_footer_key(s), 26)  \* tr35
             ELSE TokenCase(s, c)
      [] s.cs = 26 ->
             IF c = HASH THEN Enter(s, enTrailerEnd)          \* tr26
             ELSE IF c = 67 THEN Enter(s, 27)
             ELSE tr21(s)
      [] s.cs \in 27..31 ->
             LET e == CHOOSE e \in ChangeEdges : e[1] = s.cs
             IN  IF c = e[2] THEN Enter(s, e[3]) ELSE tr21(s)
      [] s.cs = 32 ->
             IF c = COLON THEN Enter(set_current_footer_key(s), 17)  \* tr25
             ELSE tr21(s)

TrailerBegStates == {87} \cup (14..32)

\* stCase33, stCase90, and the states 88, 89, 91 that follow a jump
TrailerEndCase(s, c) ==
    CASE s.cs = 33 -> IF IsPrint(c) THEN Enter(mark(s), 90) ELSE St0(s)  \* tr42
      [] s.cs = 90 ->
             IF c = NL THEN Enter(count_nl(set_footer(s)), enTrailerBeg)  \* tr106
             ELSE IF IsPrint(c) THEN Enter(s, 90)
             ELSE St0(s)
      [] s.cs = 88 -> St0(s)
      [] s.cs = 89 -> IF c = SP THEN Enter(s, enTrailerEnd) ELSE St0(s)   \* tr27
      [] s.cs = 91 ->
             IF c = NL THEN Enter(count_nl(s), enTrailerBeg) ELSE St0(s)  \* tr108

TrailerEndStates == {33, 90, 88, 89, 91}

\* stCase34, stCase92: body.  _widec is in 256..511 when no blank line is ahead.
BodyCase(s, c) ==
    LET widec == 256 + c + (IF blank_line_ahead(s) THEN 256 ELSE 0)
    IN  CASE s.cs = 34 ->
                 IF 256 <= widec /\ widec <= 511
                 THEN Enter(mark(s), 92)                              \* tr45
                 ELSE Enter(append_body(s), enTrailerBeg)             \* tr44
          [] s.cs = 92 ->
                 IF 256 <= widec /\ widec <= 511
                 THEN Enter(mark(append_body(s)), 92)                 \* tr110
                 ELSE Enter(append_body_before_blank_line(append_body(s)),
                            enTrailerBeg)                             \* tr109

BodyStates == {34, 92}

\* Control leaves the machine (_out) with m.cs as it stands.
Out(s) == IF s.pc = "panic" THEN s ELSE [s EXCEPT !.pc = "out"]

\* The switch at _testEof.
EofAction(s) ==
    CASE s.cs \in ({2, 3, 4, 13} \cup (36..39) \cup (48..75)) -> Out(err_type(s))
      [] s.cs \in {5, 6, 12, 40, 41, 47, 77, 78, 84} -> Out(err_colon(s))
      [] s.cs \in {7, 42, 79} -> Out(err_description_init(s))
      [] s.cs \in {8, 43, 80} -> Out(err_description(s))
      [] s.cs \in {9, 44, 81} -> Out(err_begin_blank_line(s))
      [] s.cs \in {85, 93, 95} -> Out(set_description(s))
      [] s.cs = 90 -> Out(set_footer(s))
      [] s.cs = 92 -> Out(append_body(s))
      [] s.cs \in 14..32 ->
             IF DOMAIN s.output.footers = {}
             THEN Enter(rewind_body(s), enBody)
             ELSE Out(rewind_error(s))
      [] s.cs \in {1, 35, 76} -> Out(err_type(err_empty(s)))
      [] s.cs \in {10, 11, 45, 46, 82, 83} ->
             LET t == err_malformed_scope(s)
             IN  IF t.pc = "panic" THEN t ELSE Out(err_malformed_scope_closing(t))
      [] s.cs = 34 -> Enter(append_body(s), enTrailerBeg)
      [] OTHER -> Out(s)

\* _testEof: the end-of-input action of the current state; control leaves the
\* machine unless the action jumps back into it.
TestEof(s) == IF s.p = s.eof THEN EofAction(s) ELSE Out(s)

\* A stCase label reads data[p]: out of range, the read panics.
AtByte(s) == 0 <= s.p /\ s.p < Len(data)

----------------------------------------------------------------------------------------------------------------------------------------
(* Inputs *)

\* The longest text after the header, in lines.
MaxLines == 4

\* Lines that combine freely: blank, body word, the two trailer forms.
CoreLines ==
    { <<>>,
      <<97>>,                    \* a
      <<97, 58, 32, 98>>,       \* a: b
      <<65, 32, 35, 99>> }      \* A #c

\* Lines of which a text holds at most one.
RareLines ==
    { <<97, 32, 98>>,            \* a b
      <<97, 98>>,                \* ab
      <<97, 58>>,                \* a:
      <<97, 58, 32>>,            \* a:<space>
      <<33>>,                    \* !
      <<97, 58, 32, 98, 9, 99>>,   \* a: b<TAB>c
      <<98, 45, 99, 58, 32, 100>>,  \* b-c: d
      <<66, 82, 69, 65, 75, 73, 78, 71, 32, 67, 72, 65, 78, 71, 69, 58, 32, 98>>,  \* BREAKING CHANGE: b
      <<66, 82, 69, 65, 75, 73, 78, 71, 32, 67, 72, 65, 78, 71, 69>>,  \* BREAKING CHANGE
      <<66, 114, 101, 97, 107, 105, 110, 103, 45, 67, 104, 97, 110, 103, 101, 58, 32, 98>> }  \* Breaking-Change: b

Join(t, l) == t \o <<NL>> \o l

RECURSIVE CoreTexts(_)
\* One to n core lines joined by newlines.
CoreTexts(n) ==
    IF n = 0 THEN {}
    ELSE CoreLines \cup {Join(t, l) : t \in CoreTexts(n - 1), l \in CoreLines}

RECURSIVE MixedTexts(_)
\* One to n lines joined by newlines, exactly one of them a rare line.
MixedTexts(n) ==
    IF n = 0 THEN {}
    ELSE RareLines
         \cup {Join(t, l) : t \in CoreTexts(n - 1), l \in RareLines}
         \cup {Join(t, l) : t \in MixedTexts(n - 1), l \in CoreLines}

Texts(n) == CoreTexts(n) \cup MixedTexts(n)

\* The accepted headers the texts follow.
ValidHeaders ==
    [minimal |-> {<<102, 105, 120, 58, 32, 120>>},
     conventional |-> {<<99, 105, 58, 32, 120>>},
     freeform |-> {<<122, 58, 32, 120>>}]

\* Header, blank line, text.  The body and trailer states are shared by the
\* three dialects: the long texts follow the minimal header only.
Messages(d) ==
    {h \o <<NL, NL>> \o t : h \in ValidHeaders[d],
                            t \in Texts(IF d = "minimal" THEN MaxLines ELSE 1)}

\* The bytes a header is perturbed with: newline, tab, space, ! ( ) : a
HeaderBytes == {10, 9, 32, 33, 40, 41, 58, 97}

FlipCase(c) ==
    IF 65 <= c /\ c <= 90 THEN c + 32
    ELSE IF 97 <= c /\ c <= 122 THEN c - 32
    ELSE c

Prefixes(b) == {SubSeq(b, 1, n) : n \in 0..Len(b)}

\* b with one byte replaced, inserted, removed or changed in case.
Perturbed(b) ==
    {b}
    \cup {[b EXCEPT ![i] = c] : i \in 1..Len(b), c \in HeaderBytes}
    \cup {SubSeq(b, 1, i) \o <<c>> \o SubSeq(b, i + 1, Len(b)) : i \in 0..Len(b), c \in HeaderBytes}
    \cup {SubSeq(b, 1, i - 1) \o SubSeq(b, i + 1, Len(b)) : i \in 1..Len(b)}
    \cup {[b EXCEPT ![i] = FlipCase(b[i])] : i \in 1..Len(b)}

\* An accepted message with a scope and a breaking marker, per dialect.
HeaderBases ==
    [minimal |-> {<<102, 105, 120, 40, 97, 41, 33, 58, 32, 120, 10, 10, 98>>},      \* fix(a)!: x, blank line, b
     conventional |-> {<<99, 105, 40, 97, 41, 33, 58, 32, 120, 10, 10, 98>>},  \* ci(a)!: x, blank line, b
     freeform |-> {<<122, 40, 97, 41, 33, 58, 32, 120, 10, 10, 98>>}]       \* z(a)!: x, blank line, b

\* A header per type keyword of the dialect.
KeywordBases ==
    [minimal |-> {<<102, 105, 120, 58, 32, 120>>,                           \* fix: x
                  <<102, 101, 97, 116, 58, 32, 120>>},                    \* feat: x
     conventional |->
                 {<<98, 117, 105, 108, 100, 58, 32, 120>>,               \* build: x
                  <<99, 104, 111, 114, 101, 58, 32, 120>>,               \* chore: x
                  <<99, 105, 58, 32, 120>>,                            \* ci: x
                  <<100, 111, 99, 115, 58, 32, 120>>,                   \* docs: x
                  <<102, 101, 97, 116, 58, 32, 120>>,                    \* feat: x
                  <<102, 105, 120, 58, 32, 120>>,                          \* fix: x
                  <<112, 101, 114, 102, 58, 32, 120>>,                   \* perf: x
                  <<114, 101, 102, 97, 99, 116, 111, 114, 58, 32, 120>>,  \* refactor: x
                  <<114, 101, 118, 101, 114, 116, 58, 32, 120>>,          \* revert: x
                  <<115, 116, 121, 108, 101, 58, 32, 120>>,              \* style: x
                  <<116, 101, 115, 116, 58, 32, 120>>},                  \* test: x
     freeform |-> {<<122, 111, 111, 58, 32, 104, 105>>}]                \* zoo: hi

\* Every prefix of every perturbation of the scoped messages; the keyword
\* headers, their prefixes and their perturbations.
Headers(d) ==
    UNION {Prefixes(m) : m \in UNION {Perturbed(b) : b \in HeaderBases[d]}}
    \cup UNION {Prefixes(b) \cup Perturbed(b) : b \in KeywordBases[d]}

\* The end-to-end scenarios of the specification.
Scenarios ==
    { <<102, 105, 120, 58, 32, 116, 121, 112, 111>>,
      <<102, 101, 97, 116, 40, 97, 112, 105, 41, 33, 58, 32, 97, 100, 100, 32, 101, 110, 100, 112, 111, 105, 110, 116, 10, 10, 69, 120, 112, 108, 97, 110, 97, 116, 105, 111, 110, 32, 103, 111, 101, 115, 32, 104, 101, 114, 101, 46, 10, 10, 82, 101, 118, 105, 101, 119, 101, 100, 45, 98, 121, 58, 32, 65, 108, 105, 99, 101, 10, 82, 101, 102, 115, 32, 35, 52, 50, 10>>,
      <<102, 105, 120, 58, 32, 98, 117, 103, 10, 10, 70, 105, 114, 115, 116, 32, 112, 97, 114, 97, 103, 114, 97, 112, 104, 46, 10, 10, 83, 101, 99, 111, 110, 100, 32, 112, 97, 114, 97, 103, 114, 97, 112, 104, 46, 10>>,
      <<102, 101, 97, 116, 58, 32, 120, 10, 10, 66, 111, 100, 121, 32, 108, 105, 110, 101, 10, 10, 66, 82, 69, 65, 75, 73, 78, 71, 32, 67, 72, 65, 78, 71, 69, 58, 32, 100, 114, 111, 112, 115, 32, 118, 49>>,
      <<122, 111, 111, 58, 32, 104, 105>> }

\* Trailer lines that differ in the token and in what follows it.
SeparatorLines ==
    {
      <<66, 82, 69, 65, 75, 73, 78, 71, 32, 67, 72, 65, 78, 71, 69, 32, 35, 98>>,  \* BREAKING CHANGE #b
      <<98, 114, 101, 97, 107, 105, 110, 103, 32, 99, 104, 97, 110, 103, 101, 58, 32, 98>>,  \* breaking change: b
      <<66, 82, 69, 65, 75, 73, 78, 71, 32, 67, 72, 65, 78, 71, 69, 58, 98>>,  \* BREAKING CHANGE:b
      <<66, 82, 69, 65, 75, 73, 78, 71, 32, 67, 72, 65, 78, 71, 69, 32, 58, 32, 98>>,  \* BREAKING CHANGE : b
      <<66, 82, 69, 65, 75, 73, 78, 71, 32, 67, 72, 65, 78, 71, 69, 120, 58, 32, 98>>,  \* BREAKING CHANGEx: b
      <<66, 82, 69, 65, 75, 73, 78, 71, 32, 35, 98>>,  \* BREAKING #b
      <<66, 82, 69, 65, 75, 73, 78, 71, 120, 58, 32, 98>>,  \* BREAKINGx: b
      <<97, 58, 98>>,  \* a:b
      <<97, 35, 32, 98>>,  \* a# b
      <<97, 32, 32, 35, 98>>,  \* a  #b
      <<97, 45, 98, 32, 35, 99>>,  \* a-b #c
      <<97, 45, 32, 98, 58, 32, 99>>,  \* a- b: c
      <<97, 45, 45, 98, 58, 32, 99>>,  \* a--b: c
      <<45, 97, 58, 32, 98>>,  \* -a: b
      <<97, 32, 98, 58, 32, 99>>,  \* a b: c
      <<97, 58, 32, 32, 98>>,  \* a:  b
      <<66, 82, 69, 65, 75, 73, 78, 71, 32, 67, 72, 65, 78, 71, 69, 58, 32, 32, 98>>,  \* BREAKING CHANGE:  b
      <<97, 32, 35>> }  \* a #

\* Header, blank line, and a separator line, alone or after a trailer.
SeparatorMessages(d) ==
    {h \o <<NL, NL>> \o pre \o l : h \in ValidHeaders[d],
                                   pre \in {<<>>, <<107, 58, 32, 118, NL>>},
                                   l \in SeparatorLines}

Inputs(d) == Headers(d) \cup Messages(d) \cup Scenarios \cup SeparatorMessages(d)

----------------
(* The operations *)

Init ==
    /\ typeConfig \in Dialects
    /\ bestEffort \in BOOLEAN
    /\ data = <<>>
    /\ cs = 0
    /\ p = 0
    /\ pe = 0
    /\ eof = 0
    /\ pb = 0
    /\ err = NoErr
    /\ currentFooterKey = <<>>
    /\ countNewlines = 0
    /\ lastNewline = 0
    /\ output = EmptyCommit
    /\ pc = "idle"
    /\ result = NoResult
    /\ token = <<>>
    /\ emitted = <<>>
    /\ rewinds = <<>>
    /\ calls = 0
    /\ sent = NotSent

\* The entry state Parse selects from m.typeConfig.
\* The entry selection with the free-form machine as the default
EntryState_freeform_default(d) ==
    CASE d = "conventional" -> enConventionalTypesMain
      [] OTHER -> enFreeFormTypesMain

EntryState(d) ==
    CASE d = "freeform" -> enFreeFormTypesMain
      [] d = "conventional" -> enConventionalTypesMain
      [] OTHER -> start

\* Parse, up to the first test of the cursor against pe, the newline count of
\* the call before left in place
ParseBegin_stale(input) ==
    /\ data' = input
    /\ p' = 0
    /\ pb' = 0
    /\ pe' = Len(input)
    /\ eof' = Len(input)
    /\ err' = NoErr
    /\ currentFooterKey' = <<>>
    /\ output' = EmptyCommit
    /\ cs' = EntryState(typeConfig)
    /\ pc' = IF Len(input) = 0 THEN "eof" ELSE "run"
    /\ result' = NoResult
    /\ token' = <<>>
    /\ emitted' = <<>>
    /\ rewinds' = <<>>
    /\ calls' = calls + 1
    /\ UNCHANGED <<typeConfig, bestEffort, lastNewline, countNewlines>>

\* Parse, up to the first test of the cursor against pe.
ParseBegin(input) ==
    /\ data' = input
    /\ p' = 0
    /\ pb' = 0
    /\ pe' = Len(input)
    /\ eof' = Len(input)
    /\ err' = NoErr
    /\ currentFooterKey' = <<>>
    /\ countNewlines' = 0
    /\ output' = EmptyCommit
    /\ cs' = EntryState(typeConfig)
    /\ pc' = IF Len(input) = 0 THEN "eof" ELSE "run"
    /\ result' = NoResult
    /\ token' = <<>>
    /\ emitted' = <<>>
    /\ rewinds' = <<>>
    /\ calls' = calls + 1
    /\ UNCHANGED <<typeConfig, bestEffort, lastNewline>>

\* Parse called on the machine as constructed.
Parse ==
    /\ pc = "idle"
    /\ \E input \in Inputs(typeConfig) : ParseBegin(input)
    /\ UNCHANGED sent

HeaderStep ==
    /\ pc = "run"
    /\ IsHeaderState(cs)
    /\ Install(IF ~AtByte(Cur) THEN Panic(Cur)
               ELSE IF cs \in KeywordStates THEN KeywordCase(Cur, data[p + 1])
               ELSE HeaderCase(Cur, data[p + 1]))
    /\ UNCHANGED <<typeConfig, bestEffort, data, result, calls, sent>>

TrailerBegStep ==
    /\ pc = "run"
    /\ cs \in TrailerBegStates
    /\ Install(IF ~AtByte(Cur) THEN Panic(Cur) ELSE TrailerBegCase(Cur, data[p + 1]))
    /\ UNCHANGED <<typeConfig, bestEffort, data, result, calls, sent>>

TrailerEndStep ==
    /\ pc = "run"
    /\ cs \in TrailerEndStates
    /\ Install(IF ~AtByte(Cur) THEN Panic(Cur) ELSE TrailerEndCase(Cur, data[p + 1]))
    /\ UNCHANGED <<typeConfig, bestEffort, data, result, calls, sent>>

BodyStep ==
    /\ pc = "run"
    /\ cs \in BodyStates
    /\ Install(IF ~AtByte(Cur) THEN Panic(Cur) ELSE BodyCase(Cur, data[p + 1]))
    /\ UNCHANGED <<typeConfig, bestEffort, data, result, calls, sent>>

EndOfInput ==
    /\ pc = "eof"
    /\ Install(TestEof(Cur))
    /\ UNCHANGED <<typeConfig, bestEffort, data, result, calls, sent>>

\* ParseReturn, best effort returning the record whatever it holds
ParseReturn_unchecked(s) ==
    IF s.cs < firstFinal
    THEN IF bestEffort
         THEN [returned |-> TRUE, msgNil |-> FALSE, msg |-> export(s.output), err |-> s.err]
         ELSE [returned |-> TRUE, msgNil |-> TRUE, msg |-> EmptyCommit, err |-> s.err]
    ELSE [returned |-> TRUE, msgNil |-> FALSE, msg |-> export(s.output), err |-> NoErr]

\* The return statements of Parse with m.bestEffort = be, the partial record
\* handed out with a nil error
ReturnOf_silent(s, be) ==
    IF s.cs < firstFinal
    THEN IF be /\ minimal(s.output)
         THEN [returned |-> TRUE, msgNil |-> FALSE, msg |-> export(s.output), err |-> NoErr]
         ELSE [returned |-> TRUE, msgNil |-> TRUE, msg |-> EmptyCommit, err |-> s.err]
    ELSE [returned |-> TRUE, msgNil |-> FALSE, msg |-> export(s.output), err |-> NoErr]

\* The return statements of Parse with m.bestEffort = be.
\* The return with the record handed out in best-effort mode whatever it holds
ReturnOf_partial(s, be) ==
    IF s.cs < firstFinal
    THEN IF be
         THEN [returned |-> TRUE, msgNil |-> FALSE, msg |-> export(s.output), err |-> s.err]
         ELSE [returned |-> TRUE, msgNil |-> TRUE, msg |-> EmptyCommit, err |-> s.err]
    ELSE [returned |-> TRUE, msgNil |-> FALSE, msg |-> export(s.output), err |-> NoErr]

ReturnOf(s, be) ==
    IF s.cs < firstFinal
    THEN IF be /\ minimal(s.output)
         THEN [returned |-> TRUE, msgNil |-> FALSE, msg |-> export(s.output), err |-> s.err]
         ELSE [returned |-> TRUE, msgNil |-> TRUE, msg |-> EmptyCommit, err |-> s.err]
    ELSE [returned |-> TRUE, msgNil |-> FALSE, msg |-> export(s.output), err |-> NoErr]

\* The end of Parse: what it returns.
ParseReturn(s) == ReturnOf(s, bestEffort)

Return ==
    /\ pc = "out"
    /\ result' = ParseReturn(Cur)
    /\ pc' = "done"
    /\ UNCHANGED <<typeConfig, bestEffort, data, cs, p, pe, eof, pb, err,
                   currentFooterKey, countNewlines, lastNewline, output,
                   token, emitted, rewinds, calls, sent>>

Next ==
    \/ Parse
    \/ HeaderStep
    \/ TrailerBegStep
    \/ TrailerEndStep
    \/ BodyStep
    \/ EndOfInput
    \/ Return

Spec == Init /\ [][Next]_vars

\* The steps of a call that has begun: Parse runs them one after the other on
\* the calling thread until it returns.
Running ==
    \/ HeaderStep
    \/ TrailerBegStep
    \/ TrailerEndStep
    \/ BodyStep
    \/ EndOfInput
    \/ Return

\* The longest text after the header in the runs checked for termination.
FairLines == 3

\* The scoped messages, the keyword headers, their prefixes and their
\* perturbations; header, blank line, text; the scenarios.
FairInputs(d) ==
    HeaderBases[d]
    \cup UNION {Prefixes(b) \cup Perturbed(b) : b \in KeywordBases[d]}
    \cup {h \o <<NL, NL>> \o t : h \in ValidHeaders[d],
                                 t \in Texts(IF d = "minimal" THEN FairLines ELSE 1)}
    \cup Scenarios

ParseFair ==
    /\ pc = "idle"
    /\ \E input \in FairInputs(typeConfig) : ParseBegin(input)
    /\ UNCHANGED sent

NextFair == ParseFair \/ Running

\* A call that has begun keeps running.
SpecFair == Init /\ [][NextFair]_vars /\ WF_vars(Running)

----------------------------------------------------------------------------
(* One machine, several calls *)

\* The calls made on one machine.
MaxCalls == 2

\* The longest text after the header of a later call, in lines.
ReuseLines == 2

\* The inputs of a later call: nothing, a header, a header and a short text.
ReuseInputs(d) ==
    {<<>>}
    \cup ValidHeaders[d]
    \cup {h \o <<NL, NL>> \o t : h \in ValidHeaders[d], t \in Texts(ReuseLines)}

\* Parse called again on a machine whose earlier call has returned: the
\* fields of the machine are as that call left them.
ParseAgain ==
    /\ pc = "done"
    /\ calls < MaxCalls
    /\ \E input \in ReuseInputs(typeConfig) : ParseBegin(input)
    /\ sent' = NotSent

\* The header of a record: type, (scope), !, colon, space, description.
SerializeHeader(m) ==
    m.type
    \o (IF m.scope = <<>> THEN <<>> ELSE <<LPAR>> \o m.scope \o <<RPAR>>)
    \o (IF m.exclamation THEN <<EXCL>> ELSE <<>>)
    \o <<COLON, SP>> \o m.descr

\* The lines "key: value" of the values of one key, each ended by a newline.
RECURSIVE FooterLines(_, _)
FooterLines(k, vs) ==
    IF vs = <<>> THEN <<>>
    ELSE k \o <<COLON, SP>> \o Head(vs) \o <<NL>> \o FooterLines(k, Tail(vs))

\* The footer lines of the keys taken in the order o.
RECURSIVE FooterBlock(_, _)
FooterBlock(f, o) ==
    IF o = <<>> THEN <<>>
    ELSE FooterLines(Head(o), f[Head(o)]) \o FooterBlock(f, Tail(o))

\* The orders the keys of a footer map can be written in.
KeyOrders(f) ==
    {o \in [1..Cardinality(DOMAIN f) -> DOMAIN f] :
        \A i, j \in DOMAIN o : i # j => o[i] # o[j]}

\* The serializations of a record: header, blank line, body, blank line,
\* footers as key: value lines; an empty body and an empty footer map leave
\* their part and its blank line out.
Serializations(m) ==
    {SerializeHeader(m)
     \o (IF m.body = <<>> THEN <<>> ELSE <<NL, NL>> \o m.body)
     \o (IF DOMAIN m.footers = {} THEN <<>>
         ELSE LET b == FooterBlock(m.footers, o)
              IN  <<NL, NL>> \o SubSeq(b, 1, Len(b) - 1)) : o \in KeyOrders(m.footers)}

\* Parse called on a serialization of the record the call before returned
\* for an input it accepted.
ParseSerialized ==
    /\ pc = "done"
    /\ calls < MaxCalls
    /\ cs >= firstFinal
    /\ ~result.msgNil
    /\ \E input \in Serializations(result.msg) : ParseBegin(input)
    /\ sent' = [given |-> TRUE, msg |-> result.msg]

NextReuse ==
    \/ Parse
    \/ ParseAgain
    \/ ParseSerialized
    \/ HeaderStep
    \/ TrailerBegStep
    \/ TrailerEndStep
    \/ BodyStep
    \/ EndOfInput
    \/ Return

SpecReuse == Init /\ [][NextReuse]_vars

----------------------------------------------------------------------------
(* One call as a function of the input *)

\* One pass of the resume loop from s: the end-of-input switch when the cursor
\* is at pe, else the stCase label of s.cs on the byte under the cursor.
Step(s) ==
    IF s.pc = "eof" THEN TestEof(s)
    ELSE IF ~AtByte(s) THEN Panic(s)
    ELSE IF s.cs \in KeywordStates THEN KeywordCase(s, data[s.p + 1])
    ELSE IF IsHeaderState(s.cs) THEN HeaderCase(s, data[s.p + 1])
    ELSE IF s.cs \in TrailerBegStates THEN TrailerBegCase(s, data[s.p + 1])
    ELSE IF s.cs \in TrailerEndStates THEN TrailerEndCase(s, data[s.p + 1])
    ELSE BodyCase(s, data[s.p + 1])

\* The machine run from s until control leaves it.
RECURSIVE Run(_)
Run(s) == IF s.pc \in {"run", "eof"} THEN Run(Step(s)) ELSE s

\* A machine as NewMachine builds it, after the resets of Parse on data.
FreshStart ==
    [cs |-> EntryState(typeConfig), p |-> 0, pe |-> Len(data), eof |-> Len(data),
     pb |-> 0, err |-> NoErr, currentFooterKey |-> <<>>, countNewlines |-> 0,
     lastNewline |-> 0, output |-> EmptyCommit,
     pc |-> IF Len(data) = 0 THEN "eof" ELSE "run",
     token |-> <<>>, emitted |-> <<>>, rewinds |-> <<>>]

----------------------------------------------------------------------------
(* What the input says, read off the bytes alone *)

HasNL(d) == \E i \in 1..Len(d) : d[i] = NL

\* The index of the first newline: the end of the description.
FirstNL(d) == CHOOSE i \in 1..Len(d) : d[i] = NL /\ \A j \in 1..(i - 1) : d[j] # NL

\* The header was accepted and its blank line follows.
HeaderPassed ==
    /\ HasNL(data)
    /\ output.descr # <<>>
    /\ Len(data) > FirstNL(data)
    /\ data[FirstNL(data) + 1] = NL

\* The bytes after the header's blank line.
TextAfterHeader(d) == SubSeq(d, FirstNL(d) + 2, Len(d))

IsPrefix(a, b) == Len(a) <= Len(b) /\ a = SubSeq(b, 1, Len(a))

HasSeparator(t) ==
    \E i \in 1..(Len(t) - 1) :
        \/ t[i] = COLON /\ t[i + 1] = SP
        \/ t[i] = SP /\ t[i + 1] = HASH

Accepted == pc = "done" /\ cs >= firstFinal

----------------------------------------------------------------------------
(* Claims *)

\* C1: Parse ends either with a record and no error, the machine in a final
\* state, or with a non-nil error, the machine in a non-final state: it never
\* returns neither record nor error, and never a record without an error for
\* an input the machine did not accept.
C1_ParseOutcome ==
    pc = "done" =>
        \/ cs >= firstFinal /\ ~result.msgNil /\ result.err = NoErr
        \/ cs < firstFinal /\ result.err # NoErr

\* C2: the return matrix.  On a failed parse the record is absent without
\* best effort and, with best effort, present exactly when type and
\* description of the partial record are non-empty, the machine's error being
\* returned with it; on success the record is returned with no error.
C2_ReturnMatrix ==
    pc = "done" =>
        IF cs < firstFinal
        THEN /\ result.err = err
             /\ IF bestEffort /\ output.type # <<>> /\ output.descr # <<>>
                THEN ~result.msgNil /\ result.msg = output
                ELSE result.msgNil
        ELSE ~result.msgNil /\ result.msg = output /\ result.err = NoErr

\* A failed parse in best-effort mode that returned the partial record.
C2_Witness ==
    /\ pc = "done"
    /\ bestEffort
    /\ cs < firstFinal
    /\ ~result.msgNil
    /\ result.err # NoErr

\* C3: every record Parse returns has a non-empty type and a non-empty
\* description.
C3_RecordHasTypeAndDescription ==
    (pc = "done" /\ ~result.msgNil) =>
        result.msg.type # <<>> /\ result.msg.descr # <<>>

\* An accepted message with body and footers, returned as a record.
C3_Witness ==
    /\ Accepted
    /\ ~result.msgNil
    /\ result.msg.body # <<>>
    /\ DOMAIN result.msg.footers # {}

\* C4: on an accepted input the body is a slice of the input that starts at
\* the first byte after the header's blank line.
C4_BodyIsSliceAfterBlankLine ==
    (Accepted /\ HasNL(data)) => IsPrefix(output.body, TextAfterHeader(data))

\* C5: a text after the header's blank line that starts like a trailer token
\* and holds no valid separator is accepted, is the body as a whole, and
\* leaves the footers empty.
C5_TokenLikeTextIsBody ==
    LET t == TextAfterHeader(data)
    IN  (/\ pc = "done"
         /\ HeaderPassed
         /\ t # <<>>
         /\ IsAlnum(t[1])
         /\ ~HasSeparator(t)
         /\ t[Len(t)] # NL)
        => /\ cs >= firstFinal
           /\ result.err = NoErr
           /\ output.body = t
           /\ DOMAIN output.footers = {}

\* C6: once a footer has been emitted, a parse that fails fails with
\* ErrTrailer or ErrTrailerIncomplete.
C6_TrailerErrorAfterFooter ==
    (pc = "done" /\ DOMAIN output.footers # {} /\ cs < firstFinal) =>
        result.err.kind \in {"ErrTrailer", "ErrTrailerIncomplete"}

BreakingChangeLiteral == <<66, 82, 69, 65, 75, 73, 78, 71, 32, 67, 72, 65, 78, 71, 69>>

SameIgnoringCase(a, b) ==
    /\ Len(a) = Len(b)
    /\ \A i \in 1..Len(a) : a[i] = b[i] \/ a[i] = FlipCase(b[i])

\* The token is the literal BREAKING CHANGE, or BREAKING-CHANGE in any case.
IsBreakingToken(tok) ==
    \/ tok = BreakingChangeLiteral
    \/ SameIgnoringCase(tok, BreakingChangeKey)

\* C7: every footer key is lower case; the key breaking-change is there
\* exactly when a stored trailer had the token BREAKING CHANGE or, in any
\* letter case, BREAKING-CHANGE; the key "breaking change" is never there.
C7_FooterKeys ==
    /\ \A k \in DOMAIN output.footers : \A i \in 1..Len(k) : ~(65 <= k[i] /\ k[i] <= 90)
    /\ BreakingChangeToken \notin DOMAIN output.footers
    /\ (BreakingChangeKey \in DOMAIN output.footers
          <=> \E i \in 1..Len(emitted) : IsBreakingToken(emitted[i].token))

\* An accepted message whose trailer BREAKING CHANGE is stored under breaking-change.
C7_Witness ==
    /\ Accepted
    /\ BreakingChangeKey \in DOMAIN result.msg.footers
    /\ \E i \in 1..Len(emitted) : emitted[i].token = BreakingChangeLiteral

\* The key a trailer token is stored under, as the specification defines it.
KeyOfToken(tok) ==
    LET low == [i \in 1..Len(tok) |-> IF 65 <= tok[i] /\ tok[i] <= 90 THEN tok[i] + 32 ELSE tok[i]]
    IN  IF low = BreakingChangeToken THEN BreakingChangeKey ELSE low

\* The values of the stored trailers of key k, in the order of the input.
ValuesOfKey(k) ==
    LET HasKey(e) == KeyOfToken(e.token) = k
        sel == SelectSeq(emitted, HasKey)
    IN  [i \in 1..Len(sel) |-> sel[i].value]

\* C8: the list stored at a key holds the values of the trailers of that key,
\* one per trailer and in the order of the input, and nothing else.
C8_FooterValuesInOrder ==
    /\ DOMAIN output.footers = {KeyOfToken(emitted[i].token) : i \in 1..Len(emitted)}
    /\ \A k \in DOMAIN output.footers : output.footers[k] = ValuesOfKey(k)

\* An accepted message with two trailers of one key and different values.
C8_Witness ==
    /\ Accepted
    /\ \E k \in DOMAIN result.msg.footers :
          /\ Len(result.msg.footers[k]) = 2
          /\ result.msg.footers[k][1] # result.msg.footers[k][2]

\* One-line body paragraphs, and trailer lines with their key and value.
Paragraphs == {<<97>>, <<97, 98>>, <<97, 32, 98>>, <<33>>}

TrailerForms ==
    { [line |-> <<97, 58, 32, 98>>, key |-> <<97>>, value |-> <<98>>],
      [line |-> <<65, 32, 35, 99>>, key |-> <<97>>, value |-> <<99>>],
      [line |-> <<66, 82, 69, 65, 75, 73, 78, 71, 32, 67, 72, 65, 78, 71, 69, 58, 32, 98>>,
       key |-> BreakingChangeKey, value |-> <<98>>] }

\* C9: header, blank line, body paragraph, blank line and a trailer of one
\* of the three forms, with or without a final newline, is accepted: the body
\* is the paragraph, the footers hold the trailer's value under its
\* lower-case key.
C9_CompleteMessage ==
    \A par \in Paragraphs, tr \in TrailerForms, end \in {<<>>, <<NL>>} :
        (/\ pc = "done"
         /\ HeaderPassed
         /\ TextAfterHeader(data) = par \o <<NL, NL>> \o tr.line \o end)
        => /\ cs >= firstFinal
           /\ result.err = NoErr
           /\ output.body = par
           /\ DOMAIN output.footers = {tr.key}
           /\ output.footers[tr.key] = <<tr.value>>

\* The first of the bytes ( ! : in d, 0 when there is none.
FirstStructural(d) ==
    IF \E i \in 1..Len(d) : d[i] \in {LPAR, EXCL, COLON}
    THEN d[CHOOSE i \in 1..Len(d) :
               d[i] \in {LPAR, EXCL, COLON} /\ \A j \in 1..(i - 1) : d[j] \notin {LPAR, EXCL, COLON}]
    ELSE 0

\* C10: when ( follows the type, an accepted input has a non-empty scope
\* that holds neither ( nor ).
C10_ScopeNonEmpty ==
    (Accepted /\ FirstStructural(data) = LPAR) =>
        /\ output.scope # <<>>
        /\ \A i \in 1..Len(output.scope) : output.scope[i] \notin {LPAR, RPAR}

----------------------------------------------------------------------------
(* The header, read off the bytes alone *)

\* The type keywords of the dialects (the free-form dialect has none).
Keywords ==
    [minimal |-> { <<102, 105, 120>>, <<102, 101, 97, 116>> },
     conventional |-> { <<98, 117, 105, 108, 100>>, <<99, 104, 111, 114, 101>>, <<99, 105>>, <<100, 111, 99, 115>>, <<102, 101, 97, 116>>, <<102, 105, 120>>,
                        <<112, 101, 114, 102>>, <<114, 101, 102, 97, 99, 116, 111, 114>>, <<114, 101, 118, 101, 114, 116>>, <<115, 116, 121, 108, 101>>, <<116, 101, 115, 116>> },
     freeform |-> {}]

Structural == {LPAR, EXCL, COLON}

\* The first index at which a type may end: a free-form type takes any
\* printable byte as its first.
TypeScanFrom == IF typeConfig = "freeform" THEN 2 ELSE 1

\* The number of bytes before the first of ( ! : that ends the type of d.
TypeLen(d) ==
    IF \E i \in TypeScanFrom..Len(d) : d[i] \in Structural
    THEN (CHOOSE i \in TypeScanFrom..Len(d) :
              d[i] \in Structural /\ \A j \in TypeScanFrom..(i - 1) : d[j] \notin Structural) - 1
    ELSE Len(d)

\* t is a type of the dialect in use.
IsTypeText(t) ==
    IF typeConfig = "freeform"
    THEN /\ t # <<>>
         /\ \A i \in 1..Len(t) : IsPrint(t[i])
         /\ \A i \in 2..Len(t) : t[i] \notin Structural
    ELSE \E kw \in Keywords[typeConfig] : SameIgnoringCase(t, kw)

\* r is nothing, a scope in parentheses, the breaking marker, or both.
IsStemRest(r) ==
    LET q == IF r # <<>> /\ r[Len(r)] = EXCL THEN SubSeq(r, 1, Len(r) - 1) ELSE r
    IN  \/ q = <<>>
        \/ /\ Len(q) >= 3
           /\ q[1] = LPAR
           /\ q[Len(q)] = RPAR
           /\ \A i \in 2..(Len(q) - 1) : IsPrint(q[i]) /\ q[i] \notin {LPAR, RPAR}

\* t is a header up to the colon: type, optional scope, optional marker.
ValidStem(t) ==
    /\ IsTypeText(SubSeq(t, 1, TypeLen(t)))
    /\ IsStemRest(SubSeq(t, TypeLen(t) + 1, Len(t)))

\* The index of the ) that closes the scope of d when ( follows the type;
\* else the length of the type.
ScopeClose(d) ==
    LET n == TypeLen(d)
    IN  IF n < Len(d) /\ d[n + 1] = LPAR /\ \E i \in (n + 2)..Len(d) : d[i] = RPAR
        THEN CHOOSE i \in (n + 2)..Len(d) : d[i] = RPAR /\ \A j \in (n + 2)..(i - 1) : d[j] # RPAR
        ELSE n

\* The index of the header's colon: the first colon outside the scope; 0 when there is none.
HeaderColon(d) ==
    LET from == ScopeClose(d) + 1
    IN  IF \E i \in from..Len(d) : d[i] = COLON
        THEN CHOOSE i \in from..Len(d) : d[i] = COLON /\ \A j \in from..(i - 1) : d[j] # COLON
        ELSE 0

\* The index of the first byte after the colon that is no space; Len(d) + 1 when there is none.
DescrStart(d) ==
    LET c == HeaderColon(d)
    IN  IF \E i \in (c + 1)..Len(d) : d[i] # SP
        THEN CHOOSE i \in (c + 1)..Len(d) : d[i] # SP /\ \A j \in (c + 1)..(i - 1) : d[j] = SP
        ELSE Len(d) + 1

\* The index of the last byte before the first newline at or after DescrStart.
DescrEnd(d) ==
    LET b == DescrStart(d)
    IN  IF \E i \in b..Len(d) : d[i] = NL
        THEN (CHOOSE i \in b..Len(d) : d[i] = NL /\ \A j \in b..(i - 1) : d[j] # NL) - 1
        ELSE Len(d)

\* d starts with a header: stem, colon, spaces and at least one description byte.
WellFormedHeader(d) ==
    /\ HeaderColon(d) > 0
    /\ ValidStem(SubSeq(d, 1, HeaderColon(d) - 1))
    /\ DescrStart(d) >= HeaderColon(d) + 2
    /\ DescrStart(d) <= Len(d)
    /\ d[DescrStart(d)] # NL

\* C11: the description of a returned record holds no newline and is the run
\* of input bytes from the first byte after the colon that is no space up to
\* the first newline or the end of the input.
C11_DescriptionIsRun ==
    (pc = "done" /\ ~result.msgNil) =>
        /\ \A i \in 1..Len(result.msg.descr) : result.msg.descr[i] # NL
        /\ result.msg.descr = SubSeq(data, DescrStart(data), DescrEnd(data))

\* A returned record whose description follows several spaces and ends at a newline.
C11_Witness ==
    /\ pc = "done"
    /\ ~result.msgNil
    /\ DescrStart(data) > HeaderColon(data) + 2
    /\ DescrEnd(data) < Len(data)
    /\ Len(result.msg.descr) > 0

\* The length of the longest prefix of d that, ignoring case, starts a keyword.
KeywordPrefixLen(d) ==
    LET Starts(i) == \E kw \in Keywords[typeConfig] :
                         i <= Len(kw) /\ SameIgnoringCase(SubSeq(d, 1, i), SubSeq(kw, 1, i))
    IN  CHOOSE i \in 0..Len(d) : Starts(i) /\ \A j \in (i + 1)..Len(d) : ~Starts(j)

IsKeyword(t) == \E kw \in Keywords[typeConfig] : SameIgnoringCase(t, kw)

\* C12: in the minimal and the conventional dialect an accepted input has
\* one of the dialect's keywords as its type, in the letter case of the
\* input; the first byte that continues no keyword, met before a keyword is
\* complete, gives ErrType with that byte and its position.
C12_TypeVocabulary ==
    (pc = "done" /\ typeConfig # "freeform") =>
        /\ cs >= firstFinal =>
              /\ IsKeyword(output.type)
              /\ output.type = SubSeq(data, 1, Len(output.type))
        /\ LET n == KeywordPrefixLen(data)
           IN  (n < Len(data) /\ ~IsKeyword(SubSeq(data, 1, n))) =>
                   /\ cs < firstFinal
                   /\ result.err = [kind |-> "ErrType", ch |-> data[n + 1], col |-> n]

\* An accepted conventional input whose type has an upper-case letter.
C12_Witness ==
    /\ Accepted
    /\ typeConfig = "conventional"
    /\ output.type # ToLower(output.type)
    /\ IsKeyword(output.type)

\* C13: the exclamation flag of a returned record is set exactly when the
\* byte before the header's colon is !
C13_ExclamationFlag ==
    (pc = "done" /\ ~result.msgNil) =>
        (result.msg.exclamation
            <=> (HeaderColon(data) > 1 /\ data[HeaderColon(data) - 1] = EXCL))

\* An accepted input with the marker between the ) of the scope and the colon.
C13_Witness ==
    /\ Accepted
    /\ result.msg.exclamation
    /\ result.msg.scope # <<>>
    /\ data[HeaderColon(data) - 2] = RPAR

\* C14: the empty input fails with ErrEmpty at column 0 and no record, in
\* every dialect and in both modes.
C14_EmptyInput ==
    (pc = "done" /\ data = <<>>) =>
        /\ result.msgNil
        /\ result.err = [kind |-> "ErrEmpty", ch |-> -1, col |-> 0]

\* The empty input parsed in best-effort mode by the free-form dialect.
C14_Witness ==
    /\ pc = "done"
    /\ data = <<>>
    /\ bestEffort
    /\ typeConfig = "freeform"
    /\ result.err.kind = "ErrEmpty"

\* C15: an input that ends inside a type keyword fails with
\* ErrTypeIncomplete; one that ends after a complete type, after the ) of a
\* scope or after ! fails with ErrEarly; both name the last byte, and no
\* record is returned in either mode.
C15_EndBeforeColon ==
    (pc = "done" /\ data # <<>>) =>
        /\ (/\ typeConfig # "freeform"
            /\ KeywordPrefixLen(data) = Len(data)
            /\ ~IsKeyword(data))
           => /\ result.msgNil
              /\ result.err.kind = "ErrTypeIncomplete"
              /\ result.err.ch = data[Len(data)]
        /\ ValidStem(data)
           => /\ result.msgNil
              /\ result.err.kind = "ErrEarly"
              /\ result.err.ch = data[Len(data)]

\* A best-effort parse of an input that ends at the ) of its scope.
C15_Witness ==
    /\ pc = "done"
    /\ bestEffort
    /\ ValidStem(data)
    /\ data[Len(data)] = RPAR
    /\ result.err.kind = "ErrEarly"

\* d has a header stem and its colon.
StemAndColon(d) ==
    /\ HeaderColon(d) > 0
    /\ ValidStem(SubSeq(d, 1, HeaderColon(d) - 1))

\* C16, as stated: a colon that is not followed by a space, be it followed
\* by another byte or by the end of the input, fails with ErrDescriptionInit.
C16_ColonWithoutSpace ==
    LET c == HeaderColon(data)
    IN  (/\ pc = "done"
         /\ StemAndColon(data)
         /\ (c = Len(data) \/ data[c + 1] # SP))
        => result.err.kind = "ErrDescriptionInit"

\* C16, amended: a byte other than a space after the colon fails with
\* ErrDescriptionInit naming that byte; the end of the input right after the
\* colon fails with ErrEarly naming the colon; no record is returned.
C16_ColonThenByteOrEnd ==
    LET c == HeaderColon(data)
    IN  (pc = "done" /\ StemAndColon(data)) =>
            /\ (c < Len(data) /\ data[c + 1] # SP) =>
                   /\ result.msgNil
                   /\ result.err = [kind |-> "ErrDescriptionInit", ch |-> data[c + 1], col |-> c]
            /\ c = Len(data) =>
                   /\ result.msgNil
                   /\ result.err = [kind |-> "ErrEarly", ch |-> COLON, col |-> c - 1]

\* An input that ends with the colon of its header, after a scope and the marker.
C16_Witness ==
    /\ pc = "done"
    /\ StemAndColon(data)
    /\ HeaderColon(data) = Len(data)
    /\ Len(data) > 2
    /\ data[Len(data) - 1] = EXCL
    /\ result.err.kind = "ErrEarly"

\* C17: after the colon and its spaces, the end of the input fails with
\* ErrDescription naming the last space, and a newline fails with ErrNewline
\* whose column is the position after the newline.
C17_NoDescription ==
    LET c == HeaderColon(data)
        k == DescrStart(data)
    IN  (/\ pc = "done"
         /\ StemAndColon(data)
         /\ c < Len(data)
         /\ data[c + 1] = SP)
        => /\ k > Len(data) =>
                  /\ result.msgNil
                  /\ result.err = [kind |-> "ErrDescription", ch |-> SP, col |-> Len(data)]
           /\ (k <= Len(data) /\ data[k] = NL) =>
                  /\ result.msgNil
                  /\ result.err.kind = "ErrNewline"
                  /\ result.err.col = k

\* A newline right after the spaces, with more input behind it.
C17_Witness ==
    /\ pc = "done"
    /\ StemAndColon(data)
    /\ DescrStart(data) < Len(data)
    /\ data[DescrStart(data)] = NL
    /\ result.err.kind = "ErrNewline"

\* C18: after the newline that ends the description a second newline must
\* follow: another byte, or the end of the input, fails with
\* ErrMissingBlankLineAtBeginning, in best-effort mode together with the
\* record of type and description; the header alone, and the header with
\* its blank line, are accepted.
C18_BlankLineAfterHeader ==
    LET e == DescrEnd(data)
    IN  (pc = "done" /\ WellFormedHeader(data)) =>
            /\ (e < Len(data) /\ (e + 1 = Len(data) \/ data[e + 2] # NL)) =>
                   /\ cs < firstFinal
                   /\ result.err.kind = "ErrMissingBlankLineAtBeginning"
                   /\ ~bestEffort => result.msgNil
                   /\ bestEffort =>
                          /\ ~result.msgNil
                          /\ result.msg.type = SubSeq(data, 1, TypeLen(data))
                          /\ result.msg.descr = SubSeq(data, DescrStart(data), e)
            /\ (e = Len(data) \/ (e + 2 = Len(data) /\ data[e + 2] = NL)) =>
                   /\ cs >= firstFinal
                   /\ ~result.msgNil
                   /\ result.err = NoErr

\* A best-effort parse of a header followed by one newline and nothing else.
C18_Witness ==
    /\ pc = "done"
    /\ bestEffort
    /\ WellFormedHeader(data)
    /\ DescrEnd(data) + 1 = Len(data)
    /\ ~result.msgNil
    /\ result.err.kind = "ErrMissingBlankLineAtBeginning"

\* fix: bug, blank line, First paragraph., blank line, Second paragraph., newline
TwoParagraphs == <<102, 105, 120, 58, 32, 98, 117, 103, 10, 10, 70, 105, 114, 115, 116, 32, 112, 97, 114, 97, 103, 114, 97, 112, 104, 46, 10, 10, 83, 101, 99, 111, 110, 100, 32, 112, 97, 114, 97, 103, 114, 97, 112, 104, 46, 10>>

\* C19: a single newline that ends the input after the last body line is
\* not part of the body: the two-paragraph example gives the body without
\* it, and no accepted input that ends with one newline has a body that ends
\* with a newline.
C19_TrailingNewlineNotInBody ==
    /\ (pc = "done" /\ data = TwoParagraphs) =>
           /\ cs >= firstFinal
           /\ output.body = <<70, 105, 114, 115, 116, 32, 112, 97, 114, 97, 103, 114, 97, 112, 104, 46, 10, 10, 83, 101, 99, 111, 110, 100, 32, 112, 97, 114, 97, 103, 114, 97, 112, 104, 46>>
           /\ DOMAIN output.footers = {}
    /\ (/\ Accepted
        /\ output.body # <<>>
        /\ Len(data) >= 2
        /\ data[Len(data)] = NL
        /\ data[Len(data) - 1] # NL)
       => output.body[Len(output.body)] # NL

\* C20: the column of a returned error is at least 0 and at most the length
\* of the input.
C20_ColumnWithinInput ==
    (pc = "done" /\ result.err # NoErr) =>
        (0 <= result.err.col /\ result.err.col <= Len(data))

\* ErrNewline for a newline that is the last byte: the column is the length of the input.
C20_Witness ==
    /\ pc = "done"
    /\ result.err.kind = "ErrNewline"
    /\ result.err.col = Len(data)
    /\ Len(data) > 0


----------------------------------------------------------------------------
(* The column of an error on the current character *)

\* The kinds the code only ever raises through emitErrorOnCurrentCharacter.
CurrentCharacterKinds ==
    {"ErrType", "ErrScope", "ErrColon", "ErrDescriptionInit", "ErrEarly", "ErrTrailer"}

\* C21 as stated: the column of an error raised on the current character is
\* the one-based position of the offending byte, so the byte of the input at
\* that one-based position is the character the error names.
C21_ColumnOneBased ==
    (pc = "done" /\ result.err.kind \in CurrentCharacterKinds) =>
        /\ result.err.col \in 1..Len(data)
        /\ data[result.err.col] = result.err.ch

\* C21, amended: the column of an error raised on the current character is the
\* zero-based position of the offending byte: it lies in 0..len-1 and the
\* byte of the input at that offset is the character the error names.
C21_ColumnZeroBased ==
    (pc = "done" /\ result.err.kind \in CurrentCharacterKinds) =>
        /\ result.err.col \in 0..(Len(data) - 1)
        /\ data[result.err.col + 1] = result.err.ch

\* An error on a character that is not the first byte and differs from the
\* byte before it, so that the two ways of counting are told apart.
C21_Witness ==
    /\ pc = "done"
    /\ result.err.kind = "ErrColon"
    /\ result.err.col > 0
    /\ data[result.err.col] # result.err.ch


----------------------------------------------------------------------------
(* Best effort *)

\* What a freshly built parser of the same dialect returns for the same input
\* when its best-effort option is be.
FreshResult(be) == ReturnOf(Run(FreshStart), be)

\* C22: for every input and dialect, the parser with the other setting of
\* best-effort returns the same error (kind, character and column, or none),
\* and on complete success (the machine in a final state) the same record;
\* only the record half of a call that did not succeed may differ.
C22_BestEffortOnlyChangesRecord ==
    pc = "done" =>
        LET other == FreshResult(~bestEffort)
        IN  /\ other.err = result.err
            /\ cs >= firstFinal =>
                   (~other.msgNil /\ ~result.msgNil /\ other.msg = result.msg)

\* A failed best-effort call that hands out its partial record with the error,
\* where the other mode hands out the same error and no record.
C22_Witness ==
    /\ pc = "done"
    /\ bestEffort
    /\ result.err # NoErr
    /\ ~result.msgNil
    /\ FreshResult(FALSE).msgNil


----------------------------------------------------------------------------
(* Reuse of a machine *)

\* C23: every call on a machine, the first or a later one, returns what a
\* freshly built parser with the same options returns for the same input
\* (record and error): nothing an earlier call left in p, pb, cs, err,
\* currentFooterKey, countNewlines or lastNewline reaches a later result.
C23_ReuseEqualsFresh ==
    pc = "done" => result = FreshResult(bestEffort)

\* A later call that rewound into the body and returned while lastNewline
\* still held an offset of the earlier call, past the end of its own input.
C23_Witness ==
    /\ pc = "done"
    /\ calls = MaxCalls
    /\ rewinds # <<>>
    /\ output.body # <<>>
    /\ lastNewline >= Len(data)


----------------------------------------------------------------------------
(* Round trip *)

\* C24: when the input of a call is a serialization of the record an accepted
\* input gave, the call accepts it and returns a record with the same type,
\* scope, exclamation flag, description, body and footers.
C24_RoundTrip ==
    (pc = "done" /\ sent.given) =>
        /\ cs >= firstFinal
        /\ ~result.msgNil
        /\ result.msg = sent.msg


----------------------------------------------------------------------------
(* The rewind into the body *)

\* The offset of the first byte after the header's blank line.
AfterBlankLine(d) == FirstNL(d) + 1

\* C25: when a failed trailer attempt with no footer emitted hands over to the
\* body machine (state 34 is entered by the rewind alone), the cursor is on
\* the byte that follows the last newline counted, or on the first byte after
\* the header's blank line when no newline was counted, and never at or
\* before the header's blank line.
C25_RewindTarget ==
    (cs = enBody /\ pc \in {"run", "eof"}) =>
        /\ p = (IF countNewlines > 0 THEN lastNewline + 1 ELSE AfterBlankLine(data))
        /\ p >= AfterBlankLine(data)


----------------------------------------------------------------------------
(* The blank line ahead of the body machine *)

\* C26: a step of the body machine on a byte that has two newlines after it
\* (p+2 < pe) commits the pending slice data[pb:p+1], the byte under the
\* cursor included, to the body after the newlines counted, and hands over
\* to the trailer-attempt state; this also when the byte is the first one
\* the body machine examines after a rewind (state 34).
C26_BlankLineAheadCommits ==
    [][(pc = "run" /\ cs \in BodyStates /\ blank_line_ahead(Cur)) =>
           /\ cs' = enTrailerBeg
           /\ output'.body = output.body \o Newlines(countNewlines)
                                         \o SubSeq(data, pb + 1, p + 1)]_vars


----------------------------------------------------------------------------
(* The newlines counted ahead of the body *)

\* The newlines among the first n bytes of d.
NewlinesIn(d, n) == Cardinality({i \in 1..n : d[i] = NL})

\* The states whose transition on a newline counts it: the trailer-attempt
\* state, and the trailer value state handing over to it.
CountingStates == {enTrailerBeg, 90, 91}

\* A newline is counted: the byte under the cursor is a newline consumed by
\* the trailer machine, and the count grows by one.
CountsNewline ==
    /\ pc = "run"
    /\ cs \in CountingStates
    /\ data[p + 1] = NL
    /\ countNewlines' = countNewlines + 1
    /\ lastNewline' = p

\* The body is emitted to: the newlines counted come first, the count is zero
\* afterwards.
EmitsBody ==
    /\ countNewlines' = 0
    /\ IsPrefix(output.body \o Newlines(countNewlines), output'.body)

\* C27: countNewlines is never negative; it changes only by one for a newline
\* the trailer machine consumes and back to zero at a body emission, and
\* every newline consumed in the trailer-attempt state is counted; a body
\* emission puts exactly the counted newlines first and resets the count;
\* the newlines in the body and in the count together never exceed the
\* newlines of the input consumed so far, so none reaches the body twice.
C27_NewlineAccounting ==
    /\ [](/\ countNewlines >= 0
          /\ pc \in {"run", "eof", "out", "done"} =>
                 NewlinesIn(output.body, Len(output.body)) + countNewlines
                     <= NewlinesIn(data, p))
    /\ [][/\ countNewlines' # countNewlines => (CountsNewline \/ EmitsBody)
          /\ output'.body # output.body => EmitsBody
          /\ (pc = "run" /\ cs = enTrailerBeg /\ data[p + 1] = NL) => CountsNewline]_vars

\* A returned body holding a blank line that went through the count, after a
\* second rewind.
C27_Witness ==
    /\ pc = "done"
    /\ cs >= firstFinal
    /\ Len(rewinds) >= 2
    /\ countNewlines = 0
    /\ \E i \in 2..(Len(output.body) - 2) :
           output.body[i] = NL /\ output.body[i + 1] = NL


----------------------------------------------------------------------------
(* Body before footers *)

\* C28: once the footers map is non-empty no step of the call modifies the
\* body and none enters the body machine (states 34 and 92): every body
\* emission precedes the first footer emission.
C28_BodyBeforeFooters ==
    [][DOMAIN output.footers # {} =>
           /\ output'.body = output.body
           /\ cs' \notin BodyStates]_vars

\* A trailer attempt that failed after a footer was stored, with a body
\* emitted before it: the error is returned and the body is as it was.
C28_Witness ==
    /\ pc = "done"
    /\ DOMAIN output.footers # {}
    /\ output.body # <<>>
    /\ err.kind \in {"ErrTrailer", "ErrTrailerIncomplete"}


----------------------------------------------------------------------------
(* Termination *)

\* The offsets the body machine resumed at grow strictly.
RewindsIncrease ==
    \A i, j \in DOMAIN rewinds : i < j => rewinds[i] < rewinds[j]

\* C29: every call that has begun returns, in every dialect and on every
\* input; the rewinds move the cursor backwards, but successive rewinds of
\* one call resume at strictly increasing offsets.
C29_ParseTerminates ==
    /\ []RewindsIncrease
    /\ (pc \in {"run", "eof", "out"}) ~> (pc = "done")

\* A call that returned after rewinding more than once.
C29_Witness ==
    /\ pc = "done"
    /\ Len(rewinds) >= 2


----------------------------------------------------------------------------
(* The cursors *)

\* C30: no read of the input and no slice of it is out of range (an index or
\* a slice out of range panics), the cursors satisfy 0 <= pb <= p <= pe with
\* pe the length of the input, a byte is read at p only when p < pe, and the
\* body entry state is never the current state at the end of the input, so
\* that no end-of-input action moves the cursor past pe.
C30_CursorsInRange ==
    /\ pc # "panic"
    /\ 0 <= pb
    /\ pb <= p
    /\ p <= pe
    /\ pe = Len(data)
    /\ pc = "run" => p < pe
    /\ pc = "eof" => (p = pe /\ cs # enBody)

\* A call that ended at the end of the input in a state before the colon
\* with ErrEarly set: the end-of-input action of that state, which reads
\* the byte under the cursor, was held back by the error already set.
C30_Witness ==
    /\ pc = "done"
    /\ p = pe
    /\ cs \in {5, 6, 12, 40, 41, 47, 77, 78, 84}
    /\ err.kind = "ErrEarly"


----------------------------------------------------------------------------
(* The first error *)

\* C31: once m.err is set no step of the call replaces it, moves the cursor
\* or changes a field of the record, and the error of a call that did not
\* end in a final state is the one returned; so the ErrEarly set when the
\* input ends right after the type, the scope, the ! or the colon is what
\* Parse returns, not ErrColon or ErrDescriptionInit.
C31_FirstErrorWins ==
    /\ [][err # NoErr => (err' = err /\ p' = p /\ output' = output)]_vars
    /\ []((pc = "done" /\ err # NoErr) => result.err = err)

\* The input ended right after the colon: ErrEarly was set on the colon and
\* the end-of-input action of the state after it left it in place.
C31_Witness ==
    /\ pc = "done"
    /\ p = pe
    /\ cs \in {7, 42, 79}
    /\ result.err.kind = "ErrEarly"
    /\ result.err.ch = COLON


----------------------------------------------------------------------------
(* Errors inside the scope *)

\* d opens a scope: a type of the dialect, then (.
OpensScope(d) ==
    /\ TypeLen(d) < Len(d)
    /\ IsTypeText(SubSeq(d, 1, TypeLen(d)))
    /\ d[TypeLen(d) + 1] = LPAR

\* The index of the first byte after the ( that is no scope byte: the ) or
\* a byte that is not printable or is (; Len(d) + 1 when every byte to the
\* end of the input is a scope byte.
ScopeStop(d) ==
    LET from == TypeLen(d) + 2
        Stops(i) == ~IsPrint(d[i]) \/ d[i] \in {LPAR, RPAR}
    IN  IF \E i \in from..Len(d) : Stops(i)
        THEN CHOOSE i \in from..Len(d) : Stops(i) /\ \A j \in from..(i - 1) : ~Stops(j)
        ELSE Len(d) + 1

\* C32: inside the parentheses a byte that is not printable or is ( fails
\* with ErrScope naming that byte at its offset; the end of the input before
\* the closing ), right after the ( included, fails with ErrScopeIncomplete
\* naming the last byte, not with ErrScope or ErrEarly.
C32_ScopeErrors ==
    (pc = "done" /\ OpensScope(data)) =>
        LET k == ScopeStop(data)
        IN  /\ (k <= Len(data) /\ data[k] # RPAR) =>
                   result.err = [kind |-> "ErrScope", ch |-> data[k], col |-> k - 1]
            /\ k = Len(data) + 1 =>
                   result.err = [kind |-> "ErrScopeIncomplete", ch |-> data[Len(data)],
                                 col |-> Len(data)]

\* The input ended right after the ( that opens the scope.
C32_Witness ==
    /\ pc = "done"
    /\ OpensScope(data)
    /\ TypeLen(data) + 1 = Len(data)
    /\ result.err.kind = "ErrScopeIncomplete"
    /\ result.err.ch = LPAR


----------------------------------------------------------------------------
(* The free-form type *)

\* The number of bytes of d before its first ( ! or :, counted from the
\* start of the input.
RunBeforeStructural(d) ==
    IF \E i \in 1..Len(d) : d[i] \in Structural
    THEN (CHOOSE i \in 1..Len(d) :
              d[i] \in Structural /\ \A j \in 1..(i - 1) : d[j] \notin Structural) - 1
    ELSE Len(d)

\* C33: in the free-form dialect the type of an accepted input is the
\* non-empty run of printable bytes from the start of the input up to its
\* first ( ! or :, and holds none of the three; a first byte that is not
\* printable gives ErrType on it; an input of printable bytes that ends
\* before any of the three gives ErrEarly on its last byte.
C33_FreeFormType ==
    (pc = "done" /\ typeConfig = "freeform" /\ data # <<>>) =>
        LET n == RunBeforeStructural(data)
        IN  /\ cs >= firstFinal =>
                   /\ output.type # <<>>
                   /\ output.type = SubSeq(data, 1, n)
                   /\ \A i \in 1..Len(output.type) :
                          IsPrint(output.type[i]) /\ output.type[i] \notin Structural
            /\ ~IsPrint(data[1]) =>
                   result.err = [kind |-> "ErrType", ch |-> data[1], col |-> 0]
            /\ (n = Len(data) /\ \A i \in 1..Len(data) : IsPrint(data[i])) =>
                   result.err = [kind |-> "ErrEarly", ch |-> data[Len(data)],
                                 col |-> Len(data) - 1]


----------------------------------------------------------------------------
(* Trailer separators *)

\* alnum+ ( "-" alnum+ )*
IsAlnumDashToken(t) ==
    /\ Len(t) > 0
    /\ \A i \in 1..Len(t) : IsAlnum(t[i]) \/ t[i] = DASH
    /\ t[1] # DASH /\ t[Len(t)] # DASH
    /\ \A i \in 1..(Len(t) - 1) : ~(t[i] = DASH /\ t[i + 1] = DASH)

\* The separators a token may be followed by.
SeparatorsOf(t) ==
    IF t = BreakingChangeLiteral THEN {<<COLON, SP>>}
    ELSE IF IsAlnumDashToken(t) THEN {<<COLON, SP>>, <<SP, HASH>>}
    ELSE {}

\* The bytes read since the mark are a token and one of its separators.
TokenAndSeparatorRead ==
    /\ p >= pb + 3 /\ p <= Len(data)
    /\ SubSeq(data, p - 1, p) \in SeparatorsOf(SubSeq(data, pb + 1, p - 2))

\* C34: the machine is about to read a trailer value (state 33) only after a
\* token that starts a line and is the literal BREAKING CHANGE followed by a
\* colon and a space, or an alnum-dash token followed by a colon and a space
\* or by a space and a hash; a token followed by its separator always gets
\* there; and a footer is stored only from the value state, which is entered
\* only from state 33.  Any other continuation stores no footer.
C34_TrailerSeparators ==
    /\ []((pc = "run" /\ cs = enTrailerEnd)
            => /\ TokenAndSeparatorRead
               /\ token = SubSeq(data, pb + 1, p - 2)
               /\ (pb = 0 \/ data[pb] = NL))
    /\ []((pc = "run" /\ cs \in 14..32) => ~TokenAndSeparatorRead)
    /\ [][output'.footers # output.footers => cs = 90]_vars
    /\ [][(pc = "run" /\ cs' = 90 /\ cs # 90) => cs = enTrailerEnd]_vars

C34_Witness ==
    /\ pc = "done" /\ Len(emitted) = 2
    /\ emitted[2].token = <<97, 45, 98>>
    /\ \E i \in 1..Len(data) : SubSeq(data, i, i + 5) = <<NL, 97, 45, 98, SP, HASH>>


----------------------------------------------------------------------------
(* Trailer value *)

\* C35: while a trailer value is read (state 90, the mark on its first byte),
\* a value that follows a colon separator starts after all the spaces of the
\* separator, so its first byte is not a space; and every stored value is a
\* non-empty run of printable bytes.
C35_ValueExcludesSeparatorSpaces ==
    /\ (pc \in {"run", "eof"} /\ cs = 90 /\ data[pb] = SP) => data[pb + 1] # SP
    /\ (pc = "done" /\ cs >= firstFinal) =>
           \A i \in 1..Len(emitted) :
               /\ emitted[i].value # <<>>
               /\ \A j \in 1..Len(emitted[i].value) : IsPrint(emitted[i].value[j])
               /\ emitted[i].value[1] # SP


----------------------------------------------------------------------------
(* Footers start a paragraph *)

\* A token, one of its separators and a printable byte start at d[i].
TrailerFormAt(d, i) ==
    \E n \in 1..(Len(d) - i) :
        /\ i + n + 2 <= Len(d)
        /\ SubSeq(d, i + n, i + n + 1) \in SeparatorsOf(SubSeq(d, i, i + n - 1))
        /\ IsPrint(d[i + n + 2])

LineStart(d, k) ==
    LET S == {j \in 1..k : j = 1 \/ d[j - 1] = NL}
    IN  CHOOSE j \in S : \A x \in S : x <= j

LineEnd(d, i) ==
    LET S == {j \in i..Len(d) : d[j] = NL}
    IN  IF S = {} THEN Len(d) + 1 ELSE CHOOSE j \in S : \A x \in S : j <= x

Occurs(x, y) ==
    \E k \in 0..(Len(y) - Len(x)) : SubSeq(y, k + 1, k + Len(x)) = x

\* The line d[i..] follows, after a single newline, a line that is neither
\* the header nor of trailer form.
FollowsBodyText(d, i) ==
    /\ i >= 3 /\ d[i - 1] = NL /\ d[i - 2] # NL
    /\ LineStart(d, i - 2) > 1
    /\ ~TrailerFormAt(d, LineStart(d, i - 2))

\* C36: a trailer value is read (state 33) only for a token that starts a
\* paragraph (two newlines before it) or the line after a stored footer; and
\* in an accepted message a line of trailer form that follows body text after
\* a single newline is in the body, newline included.
C36_FootersStartParagraph ==
    /\ (pc = "run" /\ cs = enTrailerEnd) =>
           /\ pb >= 2 /\ data[pb] = NL
           /\ \/ data[pb - 1] = NL
              \/ /\ emitted # <<>>
                 /\ LET v == emitted[Len(emitted)].value
                    IN  SubSeq(data, pb - Len(v), pb - 1) = v
    /\ (pc = "done" /\ cs >= firstFinal) =>
           \A i \in 1..Len(data) :
               (FollowsBodyText(data, i) /\ TrailerFormAt(data, i)) =>
                   Occurs(<<NL>> \o SubSeq(data, i, LineEnd(data, i) - 1), output.body)

C36_Witness ==
    /\ pc = "done" /\ cs >= firstFinal /\ emitted = <<>>
    /\ \E i \in 1..Len(data) :
           /\ FollowsBodyText(data, i) /\ TrailerFormAt(data, i)
           /\ LineEnd(data, i) = Len(data) + 1
           /\ output.body = SubSeq(data, LineStart(data, i - 2), Len(data))


----------------------------------------------------------------------------
(* Dialects *)

\* The machine of dialect d started on data, and what Parse returns from it.
FreshStartOf(d) == [FreshStart EXCEPT !.cs = EntryState(d)]

FreshResultOf(d, be) == ReturnOf(Run(FreshStartOf(d)), be)

\* The dialects that take at least the types of d.
WiderThan(d) ==
    CASE d = "minimal" -> {"conventional", "freeform"}
      [] d = "conventional" -> {"freeform"}
      [] OTHER -> {}

\* C37: an input accepted by the minimal dialect is accepted by the
\* conventional and by the free-form dialect with the same record, and an
\* input accepted by the conventional dialect is accepted by the free-form
\* dialect with the same record.
C37_DialectsDifferOnlyInType ==
    (pc = "done" /\ cs >= firstFinal) =>
        \A d \in WiderThan(typeConfig) :
            /\ Run(FreshStartOf(d)).cs >= firstFinal
            /\ FreshResultOf(d, bestEffort) = result

C37_Witness ==
    /\ pc = "done" /\ cs >= firstFinal /\ typeConfig = "minimal"
    /\ output.scope # <<>> /\ output.exclamation
    /\ output.body # <<>> /\ output.footers # EmptyCommit.footers
    /\ FreshResultOf("freeform", bestEffort) = result


----------------------------------------------------------------------------
(* Partial records *)

\* The length of the header line: the bytes before the first newline.
HeaderLine == IF HasNL(data) THEN FirstNL(data) - 1 ELSE Len(data)

\* The machine of the dialect run on the header line alone.
HeaderRun ==
    Run([FreshStart EXCEPT !.pe = HeaderLine, !.eof = HeaderLine,
                           !.pc = IF HeaderLine = 0 THEN "eof" ELSE "run"])

\* The header line is a complete header and a newline ended its description.
DescriptionCompleted == HasNL(data) /\ HeaderRun.cs >= firstFinal

\* C38: in best-effort mode a parse that does not end in a final state
\* returns a record exactly when the description was completed before the
\* failure; the record then has the fields of the header, the body as it
\* stood at the failure and the footers stored before it, value by value.
C38_PartialRecord ==
    (pc = "done" /\ bestEffort /\ cs < firstFinal) =>
        /\ ~result.msgNil <=> DescriptionCompleted
        /\ ~result.msgNil =>
               /\ result.msg.type = HeaderRun.output.type
               /\ result.msg.scope = HeaderRun.output.scope
               /\ result.msg.exclamation = HeaderRun.output.exclamation
               /\ result.msg.descr = HeaderRun.output.descr
               /\ result.msg.body = output.body
               /\ DOMAIN result.msg.footers =
                      {KeyOfToken(emitted[i].token) : i \in 1..Len(emitted)}
               /\ \A k \in DOMAIN result.msg.footers :
                      result.msg.footers[k] = ValuesOfKey(k)

C38_Witness ==
    /\ pc = "done" /\ bestEffort /\ cs < firstFinal /\ ~result.msgNil
    /\ result.err.kind = "ErrTrailerIncomplete"
    /\ Len(emitted) = 1 /\ result.msg.body # <<>>

====
